---------------------------- MODULE Spec2Model ----------------------------
(***************************************************************************)
(* A model of the food analyzer (hwkims/ollama-food-analyzer): the         *)
(* Streamlit script app2.py (session state, one script run per user        *)
(* event, the call to the inference endpoint, the cleanup and parse of the *)
(* model's reply, the safe_get accessor, the rendering of the result) and  *)
(* the reply handling of its first variant app.py.                         *)
(*                                                                         *)
(* Python values are tagged records, Python strings are sequences of       *)
(* one-character strings, and dictionaries are functions from keys to      *)
(* values, so that == on dictionaries ignores the order of insertion as    *)
(* Python's does.                                                          *)
(***************************************************************************)
EXTENDS Integers, Sequences, FiniteSets, TLC

VARIABLES
    \* st.file_uploader's widget: the file the user has in it, or NoFile
    uploaded_file,
    \* st.session_state
    uploaded_file_id, image_bytes, analysis_result, error_message, raw_output,
    \* the script's local run_analysis, as the last script run left it
    run_analysis,
    \* history of the last script run: the number of requests it sent, what
    \* the transport did with the request, the bytes the request carried, and
    \* st.session_state.uploaded_file_id as the run found it
    calls, transport, analysed_bytes, prev_file_id,
    \* the event of the user that started the last script run
    event,
    \* one call of a pure helper: its arguments, its position, what it returned
    arg, pc, ret

vars == <<uploaded_file, uploaded_file_id, image_bytes, analysis_result,
          error_message, raw_output, run_analysis, calls, transport,
          analysed_bytes, prev_file_id, event, arg, pc, ret>>

session_vars == <<uploaded_file, uploaded_file_id, image_bytes, analysis_result,
                  error_message, raw_output, run_analysis, calls, transport,
                  analysed_bytes, prev_file_id, event>>

call_vars == <<arg, pc, ret>>

-----------------------------------------------------------------------------
(* Bounds of the model.                                                    *)

\* the longest run of extraneous characters before or after a reply's body
MaxNoise == 1
\* the largest uploaded file, in bytes
MaxSize == 1
\* the longest key path handed to safe_get
MaxPath == 2

-----------------------------------------------------------------------------
(* Python values.                                                          *)

PyNone == [t |-> "NoneType"]
PyInt(n) == [t |-> "int", n |-> n]
PyBool(b) == [t |-> "bool", n |-> IF b THEN 1 ELSE 0]
PyStr(s) == [t |-> "str", s |-> s]
PyBytes(s) == [t |-> "bytes", s |-> s]
PyList(xs) == [t |-> "list", items |-> xs]
PyDict(f) == [t |-> "dict", d |-> f]
EmptyDict == PyDict(<<>>)

\* bool(v): what `if v:` tests
Truthy(v) ==
    CASE v.t = "NoneType" -> FALSE
      [] v.t \in {"int", "bool"} -> v.n # 0
      [] v.t \in {"str", "bytes"} -> Len(v.s) > 0
      [] v.t = "list" -> Len(v.items) > 0
      [] v.t = "dict" -> DOMAIN v.d # {}
      [] OTHER -> TRUE

\* isinstance(v, (int, float)): bool is a subclass of int
IsNumber(v) == v.t \in {"int", "bool", "float"}

-----------------------------------------------------------------------------
(* Python strings as sequences of characters.  A literal is written with   *)
(* "~" for the backtick.                                                   *)

BT == "BACKTICK"
DQ == "\""
NL == "\n"

Chars(lit) ==
    [i \in 1..Len(lit) |->
        IF SubSeq(lit, i, i) = "~" THEN BT ELSE SubSeq(lit, i, i)]

\* str.strip() and json's WHITESPACE
WS == {" ", NL, "\t", "\r"}

RECURSIVE LStrip(_)
LStrip(s) == IF Len(s) > 0 /\ s[1] \in WS THEN LStrip(Tail(s)) ELSE s

RECURSIVE RStrip(_)
RStrip(s) ==
    IF Len(s) > 0 /\ s[Len(s)] \in WS THEN RStrip(SubSeq(s, 1, Len(s) - 1)) ELSE s

Strip(s) == RStrip(LStrip(s))

StartsWith(s, p) == Len(s) >= Len(p) /\ SubSeq(s, 1, Len(p)) = p
EndsWith(s, p) == Len(s) >= Len(p) /\ SubSeq(s, Len(s) - Len(p) + 1, Len(s)) = p

\* s[n:] and s[:-n]
DropFirst(s, n) == SubSeq(s, n + 1, Len(s))
DropLast(s, n) == SubSeq(s, 1, Len(s) - n)

\* str.find(c) and str.rfind(c): Python's 0-based index, -1 when absent
Find(s, c) ==
    IF \E i \in 1..Len(s) : s[i] = c
    THEN (CHOOSE i \in 1..Len(s) : s[i] = c /\ \A j \in 1..(i - 1) : s[j] # c) - 1
    ELSE -1

RFind(s, c) ==
    IF \E i \in 1..Len(s) : s[i] = c
    THEN (CHOOSE i \in 1..Len(s) : s[i] = c /\ \A j \in (i + 1)..Len(s) : s[j] # c) - 1
    ELSE -1

\* s[a:b] for 0 <= a <= b <= len(s)
Slice(s, a, b) == SubSeq(s, a + 1, b)

-----------------------------------------------------------------------------
(* json.loads, for replies without backslash escapes, fractions, exponents *)
(* and the NaN and Infinity literals: the characters of the replies of     *)
(* this model spell none of them.  A parse step returns the value and the  *)
(* index after it, or fails; any failure is json.JSONDecodeError.          *)

Digits == {"0", "1", "2", "3", "4", "5", "6", "7", "8", "9"}
DigitVal(c) ==
    CASE c = "0" -> 0 [] c = "1" -> 1 [] c = "2" -> 2 [] c = "3" -> 3
      [] c = "4" -> 4 [] c = "5" -> 5 [] c = "6" -> 6 [] c = "7" -> 7
      [] c = "8" -> 8 [] c = "9" -> 9

ParseFail == [ok |-> FALSE, v |-> PyNone, i |-> 0]
ParseOk(v, i) == [ok |-> TRUE, v |-> v, i |-> i]

RECURSIVE SkipWS(_, _)
SkipWS(s, i) == IF i <= Len(s) /\ s[i] \in WS THEN SkipWS(s, i + 1) ELSE i

\* py_scanstring from the character after the opening quote: strict mode
\* refuses control characters, and the end of the text ends no string
RECURSIVE ScanString(_, _, _)
ScanString(s, i, acc) ==
    IF i > Len(s) THEN ParseFail
    ELSE IF s[i] = DQ THEN ParseOk(PyStr(acc), i + 1)
    ELSE IF s[i] \in {NL, "\t", "\r", "\\"} THEN ParseFail
    ELSE ScanString(s, i + 1, Append(acc, s[i]))

\* the digits of [1-9]\d* from index i on
RECURSIVE ScanDigits(_, _, _)
ScanDigits(s, i, n) ==
    IF i <= Len(s) /\ s[i] \in Digits
    THEN ScanDigits(s, i + 1, 10 * n + DigitVal(s[i]))
    ELSE [n |-> n, i |-> i]

\* NUMBER_RE: -?(0|[1-9]\d*), the integer part
ScanNumber(s, i) ==
    LET neg == s[i] = "-"
        j == IF neg THEN i + 1 ELSE i
    IN  IF j > Len(s) \/ s[j] \notin Digits THEN ParseFail
        ELSE IF s[j] = "0" THEN ParseOk(PyInt(0), j + 1)
        ELSE LET d == ScanDigits(s, j, 0)
             IN  ParseOk(PyInt(IF neg THEN 0 - d.n ELSE d.n), d.i)

Literal(s, i, word) ==
    i + Len(word) - 1 <= Len(s) /\ SubSeq(s, i, i + Len(word) - 1) = word

RECURSIVE ScanOnce(_, _)
RECURSIVE ScanMembers(_, _, _)
RECURSIVE ScanElements(_, _, _)

\* JSONObject from the quote that opens a key: "key" : value, then , or }
ScanMembers(s, i, acc) ==
    LET k == ScanString(s, i + 1, <<>>)
        c == SkipWS(s, k.i)
        val == ScanOnce(s, SkipWS(s, c + 1))
        \* a key given twice keeps its last value
        acc2 == (k.v.s :> val.v) @@ acc
        e == SkipWS(s, val.i)
        n == SkipWS(s, e + 1)
    IN  IF ~k.ok THEN ParseFail
        ELSE IF c > Len(s) \/ s[c] # ":" THEN ParseFail
        ELSE IF ~val.ok THEN ParseFail
        ELSE IF e > Len(s) THEN ParseFail
        ELSE IF s[e] = "}" THEN ParseOk(PyDict(acc2), e + 1)
        ELSE IF s[e] # "," THEN ParseFail
        ELSE IF n > Len(s) \/ s[n] # DQ THEN ParseFail
        ELSE ScanMembers(s, n, acc2)

\* JSONArray from its first value: value, then , or ]
ScanElements(s, i, acc) ==
    LET val == ScanOnce(s, i)
        e == SkipWS(s, val.i)
    IN  IF ~val.ok THEN ParseFail
        ELSE IF e > Len(s) THEN ParseFail
        ELSE IF s[e] = "]" THEN ParseOk(PyList(Append(acc, val.v)), e + 1)
        ELSE IF s[e] # "," THEN ParseFail
        ELSE ScanElements(s, SkipWS(s, e + 1), Append(acc, val.v))

\* scanner._scan_once
ScanOnce(s, i) ==
    IF i > Len(s) THEN ParseFail
    ELSE IF s[i] = DQ THEN ScanString(s, i + 1, <<>>)
    ELSE IF s[i] = "{" THEN
        LET j == SkipWS(s, i + 1)
        IN  IF j > Len(s) THEN ParseFail
            ELSE IF s[j] = "}" THEN ParseOk(EmptyDict, j + 1)
            ELSE IF s[j] # DQ THEN ParseFail
            ELSE ScanMembers(s, j, <<>>)
    ELSE IF s[i] = "[" THEN
        LET j == SkipWS(s, i + 1)
        IN  IF j > Len(s) THEN ParseFail
            ELSE IF s[j] = "]" THEN ParseOk(PyList(<<>>), j + 1)
            ELSE ScanElements(s, j, <<>>)
    ELSE IF Literal(s, i, Chars("null")) THEN ParseOk(PyNone, i + 4)
    ELSE IF Literal(s, i, Chars("true")) THEN ParseOk(PyBool(TRUE), i + 4)
    ELSE IF Literal(s, i, Chars("false")) THEN ParseOk(PyBool(FALSE), i + 5)
    ELSE IF s[i] \in Digits \cup {"-"} THEN ScanNumber(s, i)
    ELSE ParseFail

\* json.loads(s): one value between optional whitespace, and nothing after
Loads(s) ==
    LET r == ScanOnce(s, SkipWS(s, 1))
    IN  IF r.ok /\ SkipWS(s, r.i) = Len(s) + 1 THEN r ELSE ParseFail

-----------------------------------------------------------------------------
(* analyze_image_with_ollama: what it returns for what the transport did.  *)
(* A message is the str of its pieces: the fixed text, cut to its opening  *)
(* words, then what the f-string interpolates.                             *)

Returned(result, error, raw) == [result |-> result, error |-> error, raw |-> raw]

MsgEmpty2 == PyStr(<<"Error: Received an empty response from the model.">>)
MsgMalformed2 ==
    PyStr(<<"Error: Failed to parse the model's response as JSON", "JSONDecodeError: json_e">>)
MsgConnection == PyStr(<<"Connection Error: Could not connect to Ollama server">>)
MsgTimeout == PyStr(<<"Timeout Error: Request to Ollama server timed out">>)
MsgModelNotFound == PyStr(<<"Model Not Found Error">>)
MsgRequest == PyStr(<<"Request Error: An error occurred connecting to Ollama API", "e">>)
MsgUnexpected == PyStr(<<"An unexpected error occurred during API call", "e">>)
MsgInternal ==
    PyStr(<<"Internal error: Analysis triggered but no image data found in session state.">>)
MsgEmpty1 == PyStr(<<"Received an empty response from the model.">>)
MsgMalformed1 == PyStr(<<"The model's response was not valid JSON">>)

FenceJson == Chars("~~~json")
Fence == Chars("~~~")

\* app2.py: the markdown fence taken off both ends, then whitespace
StripFence(s) ==
    LET s1 == IF StartsWith(s, FenceJson) THEN DropFirst(s, 7) ELSE s
        s2 == IF EndsWith(s1, Fence) THEN DropLast(s1, 3) ELSE s1
    IN  Strip(s2)

\* the candidate had json_end been taken with find: it ends at the first }
ExtractCandidateFirstClose(s) ==
    LET json_start == Find(s, "{")
        json_end == Find(s, "}")
    IN  IF json_start # -1 /\ json_end # -1 /\ json_start < json_end
        THEN Slice(s, json_start, json_end + 1)
        ELSE s

\* the candidate had the slice ended at json_end: the last } is left out
ExtractCandidateExclusive(s) ==
    LET json_start == Find(s, "{")
        json_end == RFind(s, "}")
    IN  IF json_start # -1 /\ json_end # -1 /\ json_start < json_end
        THEN Slice(s, json_start, json_end)
        ELSE s

\* app2.py: from the first { to the last }, or the whole text
ExtractCandidate(s) ==
    LET json_start == Find(s, "{")
        json_end == RFind(s, "}")
    IN  IF json_start # -1 /\ json_end # -1 /\ json_start < json_end
        THEN Slice(s, json_start, json_end + 1)
        ELSE s

\* the reply handling had the test `if not ollama_output_str` been left out:
\* the empty text goes on to the fence stripping and to json.loads
ProcessResponse2Unguarded(response) ==
    LET stripped == Strip(response)
        ollama_output_str == StripFence(stripped)
        parsed_json == Loads(ExtractCandidate(ollama_output_str))
    IN  IF parsed_json.ok
        THEN Returned(parsed_json.v, PyNone, PyStr(ollama_output_str))
        ELSE Returned(PyNone, MsgMalformed2, PyStr(ollama_output_str))

\* app2.py, "Process Response": from the text of the reply's 'response' field
ProcessResponse2(response) ==
    LET stripped == Strip(response)
        ollama_output_str == StripFence(stripped)
        parsed_json == Loads(ExtractCandidate(ollama_output_str))
    IN  IF Len(stripped) = 0 THEN Returned(PyNone, MsgEmpty2, PyStr(stripped))
        ELSE IF parsed_json.ok
             THEN Returned(parsed_json.v, PyNone, PyStr(ollama_output_str))
             ELSE Returned(PyNone, MsgMalformed2, PyStr(ollama_output_str))

\* app.py, "Process Response": the reply is parsed as it is
ProcessResponse1(response) ==
    LET ollama_output_str == Strip(response)
        parsed_json == Loads(ollama_output_str)
    IN  IF Len(ollama_output_str) = 0 THEN Returned(PyNone, MsgEmpty1, PyNone)
        ELSE IF parsed_json.ok THEN Returned(parsed_json.v, PyNone, PyNone)
             ELSE Returned(PyNone, MsgMalformed1, PyStr(ollama_output_str))

(* What requests.post, raise_for_status and response.json() can do: hand   *)
(* over a body whose 'response' field is a text, or raise.  status is the  *)
(* status code of e.response, 0 when the exception carries no response.    *)
Reply(text) == [kind |-> "reply", text |-> text, exc |-> "none", status |-> 0]
Raise(exc, status) == [kind |-> "raise", text |-> <<>>, exc |-> exc, status |-> status]
NoTransport == [kind |-> "none", text |-> <<>>, exc |-> "none", status |-> 0]

\* the classes of requests.exceptions an exception is an instance of:
\* ConnectTimeout derives from both ConnectionError and Timeout
ExcClasses(exc) ==
    CASE exc = "ConnectionError" -> {"ConnectionError", "RequestException", "Exception"}
      [] exc = "ConnectTimeout" ->
            {"ConnectTimeout", "ConnectionError", "Timeout", "RequestException", "Exception"}
      [] exc = "ReadTimeout" -> {"ReadTimeout", "Timeout", "RequestException", "Exception"}
      [] exc = "HTTPError" -> {"HTTPError", "RequestException", "Exception"}
      [] exc = "TooManyRedirects" -> {"TooManyRedirects", "RequestException", "Exception"}
      [] OTHER -> {exc, "Exception"}

\* app2.py, "Handle Request Exceptions": the first except clause that matches
HandleException2(e) ==
    IF "ConnectionError" \in ExcClasses(e.exc) THEN Returned(PyNone, MsgConnection, PyNone)
    ELSE IF "Timeout" \in ExcClasses(e.exc) THEN Returned(PyNone, MsgTimeout, PyNone)
    ELSE IF "RequestException" \in ExcClasses(e.exc) THEN
        IF e.status = 404 THEN Returned(PyNone, MsgModelNotFound, PyNone)
        ELSE Returned(PyNone, MsgRequest, PyNone)
    ELSE Returned(PyNone, MsgUnexpected, PyNone)

\* app.py, "Handle Request Exceptions"
HandleException1(e) ==
    IF "ConnectionError" \in ExcClasses(e.exc)
    THEN Returned(PyNone, PyStr(<<"Connection Error: Could not connect to Ollama server">>), PyNone)
    ELSE IF "Timeout" \in ExcClasses(e.exc)
    THEN Returned(PyNone, PyStr(<<"Timeout Error: Request to Ollama server timed out">>), PyNone)
    ELSE IF "RequestException" \in ExcClasses(e.exc)
    THEN Returned(PyNone, PyStr(<<"Request Error: An error occurred during the request", "e">>), PyNone)
    ELSE Returned(PyNone, PyStr(<<"An unexpected error occurred", "e">>), PyNone)

\* app2.py analyze_image_with_ollama: one request, whose outcome is outcome
analyze_image_with_ollama(bytes, outcome) ==
    IF outcome.kind = "reply" THEN ProcessResponse2(outcome.text)
    ELSE HandleException2(outcome)

\* app.py analyze_image_with_ollama
analyze_image_with_ollama_1(bytes, outcome) ==
    IF outcome.kind = "reply" THEN ProcessResponse1(outcome.text)
    ELSE HandleException1(outcome)

-----------------------------------------------------------------------------
(* safe_get.  A step of it ends in a value or in an exception; Raised(exc) *)
(* is a call that ends in exception exc.                                   *)

Raised(exc) == [t |-> "raised", exc |-> exc]
Value(v) == [exc |-> "none", v |-> v]
Throws(exc) == [exc |-> exc, v |-> PyNone]

\* the digits of a str, as int() reads them
RECURSIVE DigitsValue(_, _)
DigitsValue(s, n) ==
    IF Len(s) = 0 THEN n ELSE DigitsValue(Tail(s), 10 * n + DigitVal(Head(s)))

\* int(temp): a str of digits, with an optional sign and whitespace around
\* it, is the number; any other str is a ValueError, any other value that is
\* no number a TypeError
PyIntOf(temp) ==
    IF temp.t # "str" THEN Throws("TypeError")
    ELSE LET s == Strip(temp.s)
             signed == Len(s) > 0 /\ s[1] \in {"-", "+"}
             body == IF signed THEN Tail(s) ELSE s
         IN  IF Len(body) > 0 /\ \A i \in 1..Len(body) : body[i] \in Digits
             THEN Value(PyInt(IF signed /\ s[1] = "-"
                              THEN 0 - DigitsValue(body, 0) ELSE DigitsValue(body, 0)))
             ELSE Throws("ValueError")

\* float(temp), reached when int(temp) has failed: the strs of this model
\* hold no '.', no exponent and spell neither nan nor inf, so that a str
\* int() refuses is one float() refuses
PyFloatOf(temp) == IF temp.t # "str" THEN Throws("TypeError") ELSE Throws("ValueError")

\* temp.get(key): a list is unhashable
DictGet(temp, key) ==
    IF key.t = "list" THEN Throws("TypeError")
    ELSE IF key.t = "str" /\ key.s \in DOMAIN temp.d THEN Value(temp.d[key.s])
    ELSE Value(PyNone)

\* the for loop over keys: it returns the default, raises, or ends with temp
RECURSIVE Traverse(_, _, _)
Traverse(temp, keys, i) ==
    IF i > Len(keys) THEN [how |-> "end", v |-> temp, exc |-> "none"]
    ELSE IF temp.t = "NoneType" THEN [how |-> "default", v |-> temp, exc |-> "none"]
    ELSE IF temp.t = "list" /\ keys[i].t \in {"int", "bool"} THEN
        IF 0 <= keys[i].n /\ keys[i].n < Len(temp.items)
        THEN Traverse(temp.items[keys[i].n + 1], keys, i + 1)
        ELSE [how |-> "default", v |-> temp, exc |-> "none"]
    ELSE IF temp.t = "dict" THEN
        LET got == DictGet(temp, keys[i])
        IN  IF got.exc = "none" THEN Traverse(got.v, keys, i + 1)
            ELSE [how |-> "raise", v |-> temp, exc |-> got.exc]
    ELSE [how |-> "default", v |-> temp, exc |-> "none"]

safe_get(data, keys, default) ==
    LET walked == Traverse(data, IF keys.t = "list" THEN keys.items ELSE <<keys>>, 1)
        temp == walked.v
        as_int == PyIntOf(temp)
        as_float == PyFloatOf(temp)
        \* except (KeyError, TypeError, IndexError): return default
        Outer(exc) == IF exc \in {"KeyError", "TypeError", "IndexError"}
                      THEN default ELSE Raised(exc)
    IN  IF walked.how = "default" THEN default
        ELSE IF walked.how = "raise" THEN Outer(walked.exc)
        ELSE IF IsNumber(temp) THEN temp
        ELSE IF as_int.exc = "none" THEN as_int.v
        ELSE IF as_int.exc \notin {"ValueError", "TypeError"} THEN Outer(as_int.exc)
        ELSE IF as_float.exc = "none" THEN as_float.v
        ELSE IF as_float.exc \notin {"ValueError", "TypeError"} THEN Outer(as_float.exc)
        ELSE temp

-----------------------------------------------------------------------------
(* The result tabs.                                                        *)

STD_DAILY_CARBS_G == 275
STD_DAILY_PROTEIN_G == 50
STD_DAILY_FAT_G == 78

Key(lit) == PyStr(Chars(lit))
NA == PyStr(Chars("N/A"))
NotRendered == [t |-> "not rendered"]
\* "No specific ingredients listed ..." and "No obvious potential allergens ..."
NoneListed == [t |-> "none listed"]

\* v if isinstance(v, (int, float)) else 0
NumberOrZero(v) == IF IsNumber(v) THEN v.n ELSE 0

\* the integer nearest to a / b, for b > 0
RoundDiv(a, b) ==
    IF a >= 0 THEN (2 * a + b) \div (2 * b) ELSE 0 - ((2 * (0 - a) + b) \div (2 * b))

\* int(x) of the quotient a / b, for b > 0: towards zero
TruncDiv(a, b) == IF a >= 0 THEN a \div b ELSE 0 - ((0 - a) \div b)

Min(a, b) == IF a <= b THEN a ELSE b

\* (val / std) * 100 if std > 0 else 0, as its f"{pct:.1f}" text in tenths
\* of a percent
PctText(val, std) == IF std > 0 THEN RoundDiv(val * 1000, std) ELSE 0

\* min(int(pct), 100), the value handed to st.progress
ProgressValue(val, std) ==
    Min(IF std > 0 THEN TruncDiv(val * 100, std) ELSE 0, 100)

RECURSIVE Pick(_, _, _)
\* the elements of seq at the indices in keep, in order
Pick(seq, keep, i) ==
    IF i > Len(seq) THEN <<>>
    ELSE (IF i \in keep THEN <<seq[i]>> ELSE <<>>) \o Pick(seq, keep, i + 1)

\* the chart had the filter kept every value other than 0
create_macro_pie_chart_nonzero(macros) ==
    LET labels == <<"Carbohydrates", "Protein", "Fat">>
        values == <<safe_get(macros, Key("carbohydrates"), PyInt(0)),
                    safe_get(macros, Key("protein"), PyInt(0)),
                    safe_get(macros, Key("fat"), PyInt(0))>>
        numeric_values == [i \in 1..3 |-> NumberOrZero(values[i])]
        keep == {i \in 1..3 : numeric_values[i] # 0}
    IN  IF keep = {} THEN PyNone
        ELSE [t |-> "Figure", labels |-> Pick(labels, keep, 1),
              values |-> Pick(numeric_values, keep, 1)]

create_macro_pie_chart(macros) ==
    LET labels == <<"Carbohydrates", "Protein", "Fat">>
        values == <<safe_get(macros, Key("carbohydrates"), PyInt(0)),
                    safe_get(macros, Key("protein"), PyInt(0)),
                    safe_get(macros, Key("fat"), PyInt(0))>>
        numeric_values == [i \in 1..3 |-> NumberOrZero(values[i])]
        keep == {i \in 1..3 : numeric_values[i] > 0}
    IN  IF keep = {} THEN PyNone
        ELSE [t |-> "Figure", labels |-> Pick(labels, keep, 1),
              values |-> Pick(numeric_values, keep, 1)]

\* what the four tabs hand to the display for the record data
Tabs(data) ==
    LET calories == safe_get(data, Key("estimated_calories_kcal"), NA)
        macros == safe_get(data, Key("estimated_macronutrients_g"), EmptyDict)
        is_dict == macros.t = "dict"
        carb_val == NumberOrZero(safe_get(macros, Key("carbohydrates"), PyInt(0)))
        prot_val == NumberOrZero(safe_get(macros, Key("protein"), PyInt(0)))
        fat_val == NumberOrZero(safe_get(macros, Key("fat"), PyInt(0)))
        Shown(x) == IF is_dict THEN PyInt(x) ELSE NotRendered
        notes == safe_get(data, Key("notes"), Key("No additional notes provided."))
        ingredients == safe_get(data, Key("detailed_ingredients"), PyList(<<>>))
        allergens == safe_get(data, Key("potential_allergens"), PyList(<<>>))
    IN  [ food_name |-> safe_get(data, Key("food_name"), NA),
          cuisine_type |-> safe_get(data, Key("cuisine_type"), NA),
          serving_size |-> safe_get(data, Key("estimated_serving_size_g"), NA),
          confidence_level |-> safe_get(data, Key("confidence_level"), NA),
          notes |-> IF Truthy(notes) THEN notes ELSE NotRendered,
          calories |-> IF IsNumber(calories) THEN calories ELSE NA,
          macros_is_dict |-> is_dict,
          carb_val |-> Shown(carb_val),
          prot_val |-> Shown(prot_val),
          fat_val |-> Shown(fat_val),
          pie_fig |-> IF is_dict THEN create_macro_pie_chart(macros) ELSE NotRendered,
          carb_pct |-> Shown(PctText(carb_val, STD_DAILY_CARBS_G)),
          prot_pct |-> Shown(PctText(prot_val, STD_DAILY_PROTEIN_G)),
          fat_pct |-> Shown(PctText(fat_val, STD_DAILY_FAT_G)),
          carb_progress |-> Shown(ProgressValue(carb_val, STD_DAILY_CARBS_G)),
          prot_progress |-> Shown(ProgressValue(prot_val, STD_DAILY_PROTEIN_G)),
          fat_progress |-> Shown(ProgressValue(fat_val, STD_DAILY_FAT_G)),
          ingredients |-> IF ingredients.t = "list" /\ Truthy(ingredients)
                          THEN ingredients ELSE NoneListed,
          preparation_guess |-> safe_get(data, Key("preparation_guess"), NA),
          allergens |-> IF allergens.t \in {"list", "str"} /\ Truthy(allergens)
                        THEN allergens ELSE NoneListed,
          json |-> data ]

-----------------------------------------------------------------------------
(* The script app2.py: session state, and one run of the script per event  *)
(* of the user.                                                            *)

NoFile == PyNone
Names == {"a.png", "b.png"}
ByteValues == {1, 2}
Contents == UNION {[1..k -> ByteValues] : k \in 0..MaxSize}
Files == {[t |-> "UploadedFile", name |-> n, data |-> c] : n \in Names, c \in Contents}

\* f"{uploaded_file.name}-{uploaded_file.size}": the pieces of the f-string;
\* the size is all digits, so two files have the same id exactly when they
\* have the same name and the same size
current_file_id(file) == PyStr(<<file.name, "-", Len(file.data)>>)

\* the test with no stored id to compare with: every run with a file in the
\* uploader analyses it, as the script of app.py does
IsNewFileAlways(id, stored) == TRUE

\* current_file_id != st.session_state.get('uploaded_file_id')
IsNewFile(id, stored) == id # stored

\* the replies and the failures of the transport a request can meet
SessionReplies ==
    { Chars(""),
      Chars("Sure, here it is: {}"),
      Chars("{\"x\":1}"),
      Chars("not json at all"),
      Chars("null"),
      Chars("~~~json\n{\"food_name\":\"Pizza\",\"estimated_macronutrients_g\":{\"carbohydrates\":80,\"protein\":20,\"fat\":30}}\n~~~") }

Outcomes ==
    {Reply(text) : text \in SessionReplies}
    \cup { Raise("ConnectionError", 0), Raise("ConnectTimeout", 0), Raise("ReadTimeout", 0),
           Raise("HTTPError", 404), Raise("HTTPError", 500), Raise("TooManyRedirects", 302),
           Raise("ValueError", 0) }

\* the display area, from the session state the run ends with
Display ==
    IF Truthy(image_bytes) THEN
        IF Truthy(error_message)
        THEN [kind |-> "error", image |-> image_bytes, error |-> error_message,
              raw |-> IF Truthy(raw_output) THEN raw_output ELSE NotRendered,
              tabs |-> NotRendered]
        ELSE IF Truthy(analysis_result)
        THEN [kind |-> "tabs", image |-> image_bytes, error |-> NotRendered,
              raw |-> IF Truthy(raw_output) THEN raw_output ELSE NotRendered,
              tabs |-> Tabs(analysis_result)]
        ELSE [kind |-> "awaiting", image |-> image_bytes, error |-> NotRendered,
              raw |-> NotRendered, tabs |-> NotRendered]
    ELSE IF ~Truthy(uploaded_file_id)
    THEN [kind |-> "upload prompt", image |-> NotRendered, error |-> NotRendered,
          raw |-> NotRendered, tabs |-> NotRendered]
    ELSE [kind |-> "nothing", image |-> NotRendered, error |-> NotRendered,
          raw |-> NotRendered, tabs |-> NotRendered]

\* the outcomes the block `if run_analysis:` can store for the bytes the
\* session holds: what the call returns, or the internal error for no bytes
AttemptOutcomes(bytes) ==
    IF Truthy(bytes)
    THEN {analyze_image_with_ollama(bytes, outcome) : outcome \in Outcomes}
    ELSE {Returned(PyNone, MsgInternal, PyNone)}

\* the run had the bytes of the uploader's file been stored on every run,
\* outside the test for a new file
ScriptRunStoresBytes(file, user_event) ==
    LET new_file == file # NoFile /\ IsNewFile(current_file_id(file), uploaded_file_id)
        bytes == IF file # NoFile THEN PyBytes(file.data) ELSE image_bytes
    IN  /\ uploaded_file' = file
        /\ event' = user_event
        /\ prev_file_id' = uploaded_file_id
        /\ run_analysis' = new_file
        /\ uploaded_file_id' = IF new_file THEN current_file_id(file) ELSE uploaded_file_id
        /\ image_bytes' = bytes
        /\ IF new_file /\ Truthy(bytes)
           THEN \E outcome \in Outcomes :
                    LET r == analyze_image_with_ollama(bytes, outcome)
                    IN  /\ analysis_result' = r.result
                        /\ error_message' = r.error
                        /\ raw_output' = r.raw
                        /\ calls' = 1
                        /\ transport' = outcome
                        /\ analysed_bytes' = bytes
           ELSE /\ calls' = 0
                /\ transport' = NoTransport
                /\ UNCHANGED analysed_bytes
                /\ IF new_file
                   THEN /\ error_message' = MsgInternal
                        /\ analysis_result' = PyNone
                        /\ raw_output' = PyNone
                   ELSE UNCHANGED <<analysis_result, error_message, raw_output>>
        /\ UNCHANGED call_vars

\* one run of the script with file in the uploader
ScriptRun(file, user_event) ==
    LET new_file == file # NoFile /\ IsNewFile(current_file_id(file), uploaded_file_id)
        bytes == IF new_file THEN PyBytes(file.data) ELSE image_bytes
    IN  /\ uploaded_file' = file
        /\ event' = user_event
        /\ prev_file_id' = uploaded_file_id
        /\ run_analysis' = new_file
        /\ uploaded_file_id' = IF new_file THEN current_file_id(file) ELSE uploaded_file_id
        /\ image_bytes' = bytes
        /\ IF new_file /\ Truthy(bytes)
           THEN \E outcome \in Outcomes :
                    LET r == analyze_image_with_ollama(bytes, outcome)
                    IN  /\ analysis_result' = r.result
                        /\ error_message' = r.error
                        /\ raw_output' = r.raw
                        /\ calls' = 1
                        /\ transport' = outcome
                        /\ analysed_bytes' = bytes
           ELSE /\ calls' = 0
                /\ transport' = NoTransport
                /\ UNCHANGED analysed_bytes
                /\ IF new_file
                   THEN /\ error_message' = MsgInternal
                        /\ analysis_result' = PyNone
                        /\ raw_output' = PyNone
                   ELSE UNCHANGED <<analysis_result, error_message, raw_output>>
        /\ UNCHANGED call_vars

\* the user puts a file into the uploader
Upload == \E file \in Files : file # uploaded_file /\ ScriptRun(file, "upload")

\* the user takes the file out of the uploader
Remove == uploaded_file # NoFile /\ ScriptRun(NoFile, "remove")

\* any other event reruns the script with the uploader as it is
Rerender == ScriptRun(uploaded_file, "rerender")

SessionInit ==
    /\ uploaded_file = NoFile
    /\ uploaded_file_id = PyNone
    /\ image_bytes = PyNone
    /\ analysis_result = PyNone
    /\ error_message = PyNone
    /\ raw_output = PyNone
    /\ run_analysis = FALSE
    /\ event = "start"
    /\ calls = 0
    /\ transport = NoTransport
    /\ analysed_bytes = PyNone
    /\ prev_file_id = PyNone

NoCall == arg = PyNone /\ pc = "idle" /\ ret = PyNone

Init == SessionInit /\ NoCall

Next == Upload \/ Remove \/ Rerender

Spec == Init /\ [][Next]_vars

-----------------------------------------------------------------------------
(* The reply handling on its own: every reply made of a body with          *)
(* extraneous text and markdown fences around it is handed to the reply    *)
(* handling of both variants.                                              *)

BoundedSeqs(S, n) == UNION {[1..k -> S] : k \in 0..n}

NoiseChars == {"x", " ", "{", "}"}
Noise == BoundedSeqs(NoiseChars, MaxNoise)
Leads == {<<>>, Chars("~~~json\n"), Chars("~~~\n")}
Trails == {<<>>, Chars("\n~~~")}
Prefixes == {n \o l : n \in Noise, l \in Leads} \cup {l \o n : n \in Noise, l \in Leads}
Suffixes == {t \o n : n \in Noise, t \in Trails}
Bodies ==
    { Chars("{}"),
      Chars("{\"a\":1}"),
      Chars("{\"a\":{\"b\":2}}"),
      Chars("{\"a\":\"}\"}"),
      Chars("{ \"a\" : [1, {}] }"),
      Chars("{\"a\":1"),
      Chars("not json"),
      Chars("[1]"),
      Chars("[{\"a\":1}]"),
      Chars("[{\"a\":1},{\"b\":2}]"),
      Chars("\"{x}\""),
      Chars("null"),
      Chars(" \n\t"),
      Chars("") }

NormArgs ==
    {[fn |-> "process_response", pre |-> p, body |-> b, suf |-> x] :
        p \in Prefixes, b \in Bodies, x \in Suffixes}

\* the text of the reply's 'response' field
RawText(a) == a.pre \o a.body \o a.suf

ProcessResponse ==
    /\ pc = "call"
    /\ arg.fn = "process_response"
    /\ ret' = [app2 |-> ProcessResponse2(RawText(arg)), app |-> ProcessResponse1(RawText(arg))]
    /\ pc' = "done"
    /\ UNCHANGED <<arg, session_vars>>

InitNorm == SessionInit /\ pc = "call" /\ ret = PyNone /\ arg \in NormArgs

NextNorm == ProcessResponse

SpecNorm == InitNorm /\ [][NextNorm]_vars

-----------------------------------------------------------------------------
(* safe_get on its own: records, key paths and defaults.                   *)

KeySteps ==
    { Key("food_name"), Key("estimated_macronutrients_g"), Key("carbohydrates"),
      Key("detailed_ingredients"), PyInt(0), PyInt(1) }
KeyPaths == KeySteps \cup {PyList(path) : path \in BoundedSeqs(KeySteps, MaxPath)}

Defaults == {NA, PyNone, PyInt(0), PyList(<<>>), EmptyDict}

GetRecords ==
    { EmptyDict,
      PyDict(Chars("food_name") :> PyStr(Chars("Pizza"))),
      PyDict(Chars("food_name") :> PyStr(Chars("7"))),
      PyDict(Chars("food_name") :> PyNone),
      PyDict(Chars("estimated_macronutrients_g") :> PyDict(Chars("carbohydrates") :> PyInt(80))),
      PyDict(Chars("estimated_macronutrients_g") :> PyDict(Chars("carbohydrates") :> PyStr(Chars(" 80 ")))),
      PyDict(Chars("estimated_macronutrients_g") :> PyStr(Chars("unknown"))),
      PyDict((Chars("detailed_ingredients") :> PyList(<<PyStr(Chars("Dough"))>>))
             @@ (Chars("food_name") :> PyBool(TRUE))),
      PyList(<<PyDict(Chars("food_name") :> PyStr(Chars("Pizza")))>>),
      PyStr(Chars("Pizza")),
      PyInt(3),
      PyNone }

GetArgs ==
    {[fn |-> "safe_get", data |-> d, keys |-> k, default |-> x] :
        d \in GetRecords, k \in KeyPaths, x \in Defaults}

SafeGet ==
    /\ pc = "call"
    /\ arg.fn = "safe_get"
    /\ ret' = safe_get(arg.data, arg.keys, arg.default)
    /\ pc' = "done"
    /\ UNCHANGED <<arg, session_vars>>

InitGet == SessionInit /\ pc = "call" /\ ret = PyNone /\ arg \in GetArgs

NextGet == SafeGet

SpecGet == InitGet /\ [][NextGet]_vars

-----------------------------------------------------------------------------
(* The result tabs on their own: records whose macronutrients are numbers, *)
(* strs, null or absent.  The numbers are ones for which the floats of     *)
(* (val / std) * 100 truncate and round as the exact quotients do; for     *)
(* others, such as 29 g of protein, int() of the float is one less.        *)

Grams == {-3, 0, 30, 275, 550}
MacroValues ==
    {PyInt(g) : g \in Grams} \cup {PyStr(Chars("12")), PyStr(Chars("n/a")), PyNone}
MacroKeys == {Chars("carbohydrates"), Chars("protein"), Chars("fat")}

\* the macronutrient objects: each key absent or with one of the values
MacroDicts ==
    UNION {{PyDict(f) : f \in [present -> MacroValues]} : present \in SUBSET MacroKeys}

TabsRecords ==
    {PyDict((Chars("estimated_macronutrients_g") :> m)
            @@ (Chars("food_name") :> PyStr(Chars("Pizza")))) : m \in MacroDicts}
    \cup { PyDict(Chars("estimated_macronutrients_g") :> PyStr(Chars("unknown"))),
           PyDict(Chars("food_name") :> PyStr(Chars("Pizza"))),
           PyDict(Chars("x") :> PyInt(1)),
           PyList(<<PyInt(1)>>) }

TabsArgs == {[fn |-> "tabs", data |-> d] : d \in TabsRecords}

RenderTabs ==
    /\ pc = "call"
    /\ arg.fn = "tabs"
    /\ ret' = Tabs(arg.data)
    /\ pc' = "done"
    /\ UNCHANGED <<arg, session_vars>>

InitTabs == SessionInit /\ pc = "call" /\ ret = PyNone /\ arg \in TabsArgs

NextTabs == RenderTabs

SpecTabs == InitTabs /\ [][NextTabs]_vars

-----------------------------------------------------------------------------
(* The claims.                                                             *)

\* the field a key path asks for is missing from data: a key of the path is
\* absent from its dictionary, an index is out of the range of its list, or
\* the path goes on through a value that is no container of the step's kind
RECURSIVE Missing(_, _, _)
Missing(temp, path, i) ==
    IF i > Len(path) THEN FALSE
    ELSE IF temp.t = "dict" THEN
        IF path[i].t = "str" /\ path[i].s \in DOMAIN temp.d
        THEN Missing(temp.d[path[i].s], path, i + 1)
        ELSE TRUE
    ELSE IF temp.t = "list" THEN
        IF path[i].t = "int" /\ 0 <= path[i].n /\ path[i].n < Len(temp.items)
        THEN Missing(temp.items[path[i].n + 1], path, i + 1)
        ELSE TRUE
    ELSE TRUE

PathOf(keys) == IF keys.t = "list" THEN keys.items ELSE <<keys>>

\* C1: whenever the field a key path asks for is missing from the record (the
\* final key or an intermediate step is absent, the container is of the wrong
\* kind, or a list index is out of range), safe_get returns the default it
\* was given, and it never raises.
C1_MissingFieldGivesDefault ==
    (pc = "done" /\ arg.fn = "safe_get")
        => /\ ret.t # "raised"
           /\ Missing(arg.data, PathOf(arg.keys), 1) => ret = arg.default

\* the body of a reply is the text of one JSON object
IsObjectText(body) ==
    /\ Len(body) > 0
    /\ body[1] = "{"
    /\ body[Len(body)] = "}"
    /\ Loads(body).ok
    /\ Loads(body).v.t = "dict"

BraceFree(text) == \A i \in 1..Len(text) : text[i] \notin {"{", "}"}

C3_RequestOnlyForNewFileId ==
    /\ calls \in {0, 1}
    /\ calls = 1 => /\ uploaded_file # NoFile
                    /\ current_file_id(uploaded_file) # prev_file_id
    /\ event = "rerender" => calls = 0

\* C3, its case: a failed attempt has been rendered again with its file in the
\* uploader, and no request was sent
C3_Witness ==
    /\ event = "rerender"
    /\ uploaded_file # NoFile
    /\ Truthy(error_message)
    /\ error_message # MsgInternal
    /\ calls = 0

\* C4: once an attempt has ended, the run that follows a later upload of an
\* image (the same file put back after its removal included) sends a new
\* request for the uploaded bytes.
C4_ReuploadIsFreshAttempt ==
    (/\ event = "upload"
     /\ prev_file_id # PyNone
     /\ Len(uploaded_file.data) > 0)
        => /\ calls = 1
           /\ analysed_bytes = PyBytes(uploaded_file.data)

\* C5: the image and the outcome the session holds are those of the image
\* last uploaded: with an image in the uploader, the session's image_bytes
\* are its bytes and the outcome was computed from them.
C5_LastUploadedImageWins ==
    (uploaded_file # NoFile /\ Len(uploaded_file.data) > 0)
        => /\ image_bytes = PyBytes(uploaded_file.data)
           /\ analysed_bytes = image_bytes

\* C6: a run whose attempt failed shows the failure as an error in that run,
\* with the raw text of the reply when there is one.
C6_FailureIsShown ==
    (run_analysis /\ Truthy(error_message))
        => /\ Display.kind = "error"
           /\ Display.error = error_message
           /\ (transport.kind = "reply" /\ Len(Strip(transport.text)) > 0)
                  => Display.raw # NotRendered

\* C7: when the JSON candidate cannot be parsed, the call returns no record,
\* the message that carries the parse error, and the raw text of the reply as
\* it was received (whitespace around it apart), before the fences were taken
\* off.
C7_MalformedCarriesOriginalText ==
    (/\ pc = "done"
     /\ arg.fn = "process_response"
     /\ Len(Strip(RawText(arg))) > 0
     /\ ~Loads(ExtractCandidate(StripFence(Strip(RawText(arg))))).ok)
        => /\ ret.app2.result = PyNone
           /\ ret.app2.error = MsgMalformed2
           /\ ret.app2.raw = PyStr(Strip(RawText(arg)))

ExpectedKeys ==
    { Chars("food_name"), Chars("cuisine_type"), Chars("detailed_ingredients"),
      Chars("preparation_guess"), Chars("estimated_serving_size_g"),
      Chars("estimated_calories_kcal"), Chars("estimated_macronutrients_g"),
      Chars("potential_allergens"), Chars("confidence_level"), Chars("notes") }

\* C8: when the reply's object parses and holds none of the expected keys
\* (the empty object included), the attempt succeeds and the tabs are shown
\* with every field at its default: 'N/A', no list entries, 0.
C8_NoExpectedKeysRendersDefaults ==
    (/\ calls = 1
     /\ analysis_result.t = "dict"
     /\ DOMAIN analysis_result.d \cap ExpectedKeys = {})
        => /\ error_message = PyNone
           /\ Display.kind = "tabs"
           /\ Display.tabs.food_name = NA
           /\ Display.tabs.cuisine_type = NA
           /\ Display.tabs.serving_size = NA
           /\ Display.tabs.confidence_level = NA
           /\ Display.tabs.calories = NA
           /\ Display.tabs.preparation_guess = NA
           /\ Display.tabs.ingredients = NoneListed
           /\ Display.tabs.allergens = NoneListed
           /\ Display.tabs.carb_val = PyInt(0)
           /\ Display.tabs.prot_val = PyInt(0)
           /\ Display.tabs.fat_val = PyInt(0)

\* C9: a request that timed out, while connecting or while waiting for the
\* reply, ends the call with the Timeout Error and no record, and the run
\* sent that one request only.
C9_TimeoutIsTimeoutError ==
    (calls = 1 /\ transport.kind = "raise" /\ transport.exc \in {"ConnectTimeout", "ReadTimeout"})
        => /\ error_message = MsgTimeout
           /\ analysis_result = PyNone

\* the grams a record gives for a macronutrient, 0 when it gives no number
GramsGiven(data, key) ==
    LET m == data.d[Chars("estimated_macronutrients_g")]
    IN  IF key \in DOMAIN m.d /\ m.d[key].t = "int" THEN m.d[key].n ELSE 0

HasNumericMacros(data) ==
    /\ data.t = "dict"
    /\ Chars("estimated_macronutrients_g") \in DOMAIN data.d
    /\ data.d[Chars("estimated_macronutrients_g")].t = "dict"
    /\ \A k \in DOMAIN data.d[Chars("estimated_macronutrients_g")].d :
           data.d[Chars("estimated_macronutrients_g")].d[k].t = "int"

\* C10: for every macronutrient value the text shows value / reference * 100
\* (references 275, 50 and 78) unclamped, and the value handed to the
\* progress indicator is within 0..100: 0 g gives 0, 275 g of carbohydrate
\* gives 100.0, 550 g gives the text 200.0 and the progress value 100.
C10_ProgressWithinRange ==
    (pc = "done" /\ arg.fn = "tabs" /\ HasNumericMacros(arg.data))
        => LET carb == GramsGiven(arg.data, Chars("carbohydrates"))
               prot == GramsGiven(arg.data, Chars("protein"))
               fat == GramsGiven(arg.data, Chars("fat"))
           IN  /\ ret.carb_pct = PyInt(RoundDiv(carb * 1000, 275))
               /\ ret.prot_pct = PyInt(RoundDiv(prot * 1000, 50))
               /\ ret.fat_pct = PyInt(RoundDiv(fat * 1000, 78))
               /\ ret.carb_progress.n \in 0..100
               /\ ret.prot_progress.n \in 0..100
               /\ ret.fat_progress.n \in 0..100
               /\ carb = 0 => ret.carb_pct.n = 0 /\ ret.carb_progress.n = 0
               /\ carb = 275 => ret.carb_pct.n = 1000 /\ ret.carb_progress.n = 100
               /\ carb = 550 => ret.carb_pct.n = 2000 /\ ret.carb_progress.n = 100

\* the text is empty or holds whitespace only
IsBlank(text) == \A i \in 1..Len(text) : text[i] \in WS

\* C11: for a reply whose 'response' text is empty or whitespace only, the
\* call of either variant returns the empty-response failure with no record;
\* it is not the parse failure json.loads would give for the empty text, and
\* the call returns rather than raises.
C11_EmptyResponse ==
    (pc = "done" /\ arg.fn = "process_response" /\ IsBlank(RawText(arg)))
        => /\ ret.app2.result = PyNone
           /\ ret.app2.error = MsgEmpty2
           /\ ret.app2.error # MsgMalformed2
           /\ ret.app.result = PyNone
           /\ ret.app.error = MsgEmpty1
           /\ ret.app.error # MsgMalformed1

\* C11, its case: a reply of whitespace only has been handled
C11_Witness ==
    /\ pc = "done"
    /\ arg.fn = "process_response"
    /\ Len(RawText(arg)) > 0
    /\ IsBlank(RawText(arg))
    /\ ret.app2.error = MsgEmpty2
    /\ ret.app.error = MsgEmpty1

\* the record holds a macronutrient object
HasMacroDict(data) ==
    /\ data.t = "dict"
    /\ Chars("estimated_macronutrients_g") \in DOMAIN data.d
    /\ data.d[Chars("estimated_macronutrients_g")].t = "dict"

MacroOrder == <<Chars("carbohydrates"), Chars("protein"), Chars("fat")>>
MacroLabels == <<"Carbohydrates", "Protein", "Fat">>

\* the grams the chart reads for a macronutrient: the number given, the
\* number a str spells, 0 for what is missing, null or any other str
ChartGrams(data, key) ==
    LET m == data.d[Chars("estimated_macronutrients_g")].d
    IN  IF key \notin DOMAIN m THEN 0
        ELSE IF m[key].t = "int" THEN m[key].n
        ELSE IF m[key].t = "str" /\ PyIntOf(m[key]).exc = "none" THEN PyIntOf(m[key]).v.n
        ELSE 0

TextFields ==
    { Key("food_name"), Key("cuisine_type"), Key("preparation_guess"),
      Key("confidence_level"), Key("notes"), Key("potential_allergens") }

\* C13: for a field that is not declared numeric (food_name, cuisine_type,
\* preparation_guess, confidence_level, notes, potential_allergens), safe_get
\* returns the value the record stores under it unchanged, whatever the
\* value holds; a str that spells a number stays that str.
C13_TextFieldPassesThrough ==
    (/\ pc = "done"
     /\ arg.fn = "safe_get"
     /\ arg.keys \in TextFields
     /\ arg.data.t = "dict"
     /\ arg.keys.s \in DOMAIN arg.data.d)
        => ret = arg.data.d[arg.keys.s]

\* the reply is strict JSON on its own: app.py, which hands the stripped
\* text to json.loads as it is, returns a value and no error
StrictJson == ret.app.error = PyNone

C15_ResultOrErrorAfterAttempt ==
    calls = 1
        => /\ (analysis_result # PyNone) # (error_message # PyNone)
           /\ Display.kind \in {"tabs", "error"}

\* the outcome the session holds
SessionOutcome == Returned(analysis_result, error_message, raw_output)

\* the outcome is unset, or it is an outcome of the attempt on the bytes the
\* session holds, which are the bytes the request carried and have the size
\* the stored identity names
OutcomeOfStoredImage ==
    \/ /\ analysis_result = PyNone
       /\ error_message = PyNone
       /\ raw_output = PyNone
    \/ /\ uploaded_file_id # PyNone
       /\ image_bytes # PyNone
       /\ uploaded_file_id.s[3] = Len(image_bytes.s)
       /\ SessionOutcome \in AttemptOutcomes(image_bytes)
       /\ Truthy(image_bytes) => analysed_bytes = image_bytes

\* a run with no file in the uploader, or with a file of the stored identity,
\* leaves the five session fields as they were
SameIdentityChangesNothing ==
    LET same == IF uploaded_file' = NoFile THEN TRUE
                ELSE current_file_id(uploaded_file') = uploaded_file_id
    IN  same => UNCHANGED <<uploaded_file_id, image_bytes, analysis_result,
                            error_message, raw_output>>

\* C16: at the end of every script run the session's analysis_result,
\* error_message and raw_output are all unset, or they are the outcome of the
\* attempt on the bytes stored in image_bytes under the stored
\* uploaded_file_id (an outcome of an earlier image is never held with the
\* bytes of a later one); and a run with no uploaded file or with a file of
\* the same identity leaves the five session fields unchanged.
C16_OutcomeBelongsToStoredImage ==
    /\ []OutcomeOfStoredImage
    /\ [][SameIdentityChangesNothing]_vars

\* C16, its case: after an attempt on one image, a file of the same name and
\* size with other bytes has been uploaded, and the session holds the first
\* image with its outcome
C16_Witness ==
    /\ event = "upload"
    /\ calls = 0
    /\ uploaded_file # NoFile
    /\ Truthy(image_bytes)
    /\ PyBytes(uploaded_file.data) # image_bytes
    /\ current_file_id(uploaded_file) = uploaded_file_id
    /\ analysed_bytes = image_bytes
    /\ SessionOutcome \in AttemptOutcomes(image_bytes)
    /\ Truthy(analysis_result)

=============================================================================
